---- MODULE Spec2Model ----
(***************************************************************************)
(* Review normalisation and thematic tagging pipeline.                     *)
(*   scripts/preprocess_bank_app_reviews.py : remove_duplicates,           *)
(*       handle_missing_data, normalize_dates, balance_reviews,            *)
(*       detect_language, translate_amharic, translate_reviews, clean_text *)
(*   scripts/thematic_analysis.py : preprocess_text, extract_keywords,     *)
(*       cluster_keywords, assign_themes_to_reviews                        *)
(* Each script is one sequential program; each has its own specification.  *)
(***************************************************************************)
EXTENDS Integers, Sequences, FiniteSets, TLC

VARIABLES
    pre_pc,        \* position in preprocess main(): the stage last run
    pre_raised,    \* the exception that ended main(), "" while none has
    pre_raw,       \* the DataFrame load_data returned
    pre_in,        \* the DataFrame handed to the stage last completed
    pre_df,        \* the current DataFrame (df in main)
    pre_target,    \* balance_reviews' target_count
    pre_strict,    \* pd.to_datetime infers one format for the column (pandas >= 2)
    pre_todo,      \* balance_reviews: banks of df['bank'].unique() not yet visited
    pre_balanced,  \* balance_reviews: balanced_dfs
    dl_pc,         \* detect_language called alone: "call", then "returned"
    dl_text,       \* its argument
    dl_detector,   \* what langdetect's detect(text) does when it is reached
    dl_lang,       \* the value returned
    dl_raised,     \* the exception that left detect_language, "" when none
    tr_pc,         \* position in translate_reviews
    tr_df,         \* df['review'] on entry
    tr_i,          \* reviews already processed (i of enumerate)
    tr_lang,       \* translate_amharic: lang of the current review, "" before
    tr_calls,      \* translate_amharic: what each translator.translate call did
    tr_translated, \* translated_reviews
    tr_review,     \* df['review'] on return
    th_pc,         \* position in thematic main(): the step last run
    th_raised,     \* the exception that ended main(), "" while none has
    th_df,         \* the DataFrame: review, bank, processed_text, themes
    th_todo,       \* extract_keywords: banks of df['bank'].unique() not yet visited
    th_keyword_dict, \* keyword_dict, in insertion order
    th_theme_dict, \* theme_dict, in insertion order
    cl_pc,         \* clean_text called alone: "call", "cleaned", "cleaned_again"
    cl_text,       \* its argument
    cl_once,       \* clean_text(text)
    cl_twice       \* clean_text(clean_text(text))

preVars == <<pre_pc, pre_raised, pre_raw, pre_in, pre_df, pre_target, pre_strict,
             pre_todo, pre_balanced>>

dlVars == <<dl_pc, dl_text, dl_detector, dl_lang, dl_raised>>

trVars == <<tr_pc, tr_df, tr_i, tr_lang, tr_calls, tr_translated, tr_review>>

thVars == <<th_pc, th_raised, th_df, th_todo, th_keyword_dict, th_theme_dict>>

clVars == <<cl_pc, cl_text, cl_once, cl_twice>>

vars == <<preVars, dlVars, trVars, thVars, clVars>>

\* the variables of the programs a specification does not run
notPre == <<dlVars, trVars, thVars, clVars>>
notDl == <<preVars, trVars, thVars, clVars>>
notTr == <<preVars, dlVars, thVars, clVars>>
notTh == <<preVars, dlVars, trVars, clVars>>
notCl == <<preVars, dlVars, trVars, thVars>>

----------------------------------------------------------------------------
(* Bounds of the model.                                                    *)
MaxRows == 2       \* rows of the raw DataFrame
MaxTarget == 2     \* largest target_count tried
MaxTextLen == 2    \* code points of a text handed to detect_language alone
MaxReviews == 2    \* reviews handed to translate_reviews
MaxThReviews == 3  \* reviews of the thematic analysis' input
MaxCleanLen == 3   \* code points of a text handed to clean_text alone

----------------------------------------------------------------------------
(* Generic helpers.                                                        *)

Min(a, b) == IF a <= b THEN a ELSE b

SeqsUpTo(S, n) == UNION {[1..k -> S] : k \in 0..n}

Range(s) == {s[i] : i \in 1..Len(s)}

\* the elements of s at the positions in S, in order (boolean-mask selection)
RECURSIVE MaskFrom(_, _, _)
MaskFrom(s, S, i) ==
    IF i > Len(s) THEN <<>>
    ELSE (IF i \in S THEN <<s[i]>> ELSE <<>>) \o MaskFrom(s, S, i + 1)

Mask(s, S) == MaskFrom(s, S, 1)

\* Series.unique(): the distinct values in order of first appearance
unique(s) == Mask(s, {i \in 1..Len(s) : \A j \in 1..(i - 1) : s[j] /= s[i]})

RECURSIVE Concat(_)
Concat(ss) == IF ss = <<>> THEN <<>> ELSE Head(ss) \o Concat(Tail(ss))

----------------------------------------------------------------------------
(* DataFrame cells: a missing value (NaN) or a present value.              *)

NaNStr == [na |-> TRUE, v |-> ""]
NaNNum == [na |-> TRUE, v |-> 0]
Str(x) == [na |-> FALSE, v |-> x]
Num(x) == [na |-> FALSE, v |-> x]

isna(c) == c.na

\* the raw rows the collector can produce (scrap.py writes these columns)
RawReviews == {NaNStr, Str("good")}     \* read_csv reads an empty field as NaN
RawRatings == {NaNNum, Num(0)}
RawDates   == {NaNStr, Str("2024-01-02"), Str("01/02/2024"), Str("not a date")}
RawBanks   == {NaNStr, Str("A"), Str("B")}
RawSources == {Str("Google Play")}

RawRows == [review : RawReviews, rating : RawRatings, date : RawDates,
            bank : RawBanks, source : RawSources]

\* pd.read_csv gives the rows a RangeIndex 0..n-1
read_csv(rows) ==
    [i \in 1..Len(rows) |->
        [idx |-> i - 1, review |-> rows[i].review, rating |-> rows[i].rating,
         date |-> rows[i].date, bank |-> rows[i].bank, source |-> rows[i].source]]

----------------------------------------------------------------------------
(* remove_duplicates                                                       *)

DedupSubset(r) == <<r.review, r.rating, r.date, r.bank, r.source>>

\* faulty variant: keep='last'
remove_duplicates_last(df) ==
    Mask(df, {i \in 1..Len(df) :
                \A j \in (i + 1)..Len(df) : DedupSubset(df[j]) /= DedupSubset(df[i])})

\* df.drop_duplicates(subset=[...], keep='first'); NaN equals NaN here
remove_duplicates(df) ==
    Mask(df, {i \in 1..Len(df) :
                \A j \in 1..(i - 1) : DedupSubset(df[j]) /= DedupSubset(df[i])})

----------------------------------------------------------------------------
(* handle_missing_data                                                     *)

fillna(c, d) == IF isna(c) THEN d ELSE c

handle_missing_data(df) ==
    LET filled == [i \in 1..Len(df) |->
                     [df[i] EXCEPT !.review = fillna(@, Str("")),
                                   !.rating = fillna(@, Num(0)),
                                   !.source = fillna(@, Str("Google Play"))]]
    IN  Mask(filled, {i \in 1..Len(filled) :
                        ~isna(filled[i].date) /\ ~isna(filled[i].bank)})

----------------------------------------------------------------------------
(* normalize_dates                                                         *)

NaT == [nat |-> TRUE, y |-> 0, m |-> 0, d |-> 0]
Timestamp(y, m, d) == [nat |-> FALSE, y |-> y, m |-> m, d |-> d]

\* the format a date string is written in ("" when it is no date)
DateFormat(s) ==
    CASE s = "2024-01-02" -> "%Y-%m-%d"
      [] s = "01/02/2024" -> "%m/%d/%Y"
      [] OTHER -> ""

\* pd.to_datetime(x, errors='coerce') of one string
to_datetime_coerce(s) ==
    CASE s = "2024-01-02" -> Timestamp(2024, 1, 2)
      [] s = "01/02/2024" -> Timestamp(2024, 1, 2)
      [] OTHER -> NaT

\* Timestamp.strftime('%Y-%m-%d')
strftime_ymd(t) ==
    CASE t = Timestamp(2024, 1, 2) -> "2024-01-02"
      [] OTHER -> "NaT"

\* pd.to_datetime(df['date']) of a column without NaN: ValueError when an
\* element is no date; with strict (pandas >= 2) the format is inferred from
\* the first element and an element in another format is a ValueError too.
to_datetime_raises(dates, strict) ==
    \/ \E i \in 1..Len(dates) : to_datetime_coerce(dates[i].v) = NaT
    \/ /\ strict
       /\ \E i \in 1..Len(dates) : DateFormat(dates[i].v) /= DateFormat(dates[1].v)

DateColumn(df) == [i \in 1..Len(df) |-> df[i].date]

Canonical(df) ==
    [i \in 1..Len(df) |->
        [df[i] EXCEPT !.date = Str(strftime_ymd(to_datetime_coerce(@.v)))]]

\* whether the scalar pd.to_datetime returns (a Timestamp, or NaT) has the
\* .notna() method line 53 calls on it: only Series and DataFrame have it
ScalarHasNotna(t) == FALSE

\* [raised |-> the exception that leaves the function or "", df |-> the result]
normalize_dates(df, strict) ==
    IF ~to_datetime_raises(DateColumn(df), strict)
    THEN [raised |-> "", df |-> Canonical(df)]
    ELSE \* except ValueError: the lambda runs on every element
         IF \E i \in 1..Len(df) : ~ScalarHasNotna(to_datetime_coerce(df[i].date.v))
         THEN [raised |-> "AttributeError", df |-> df]
         ELSE LET kept == Mask(df, {i \in 1..Len(df) :
                                      to_datetime_coerce(df[i].date.v) /= NaT})
              IN  IF to_datetime_raises(DateColumn(kept), strict)
                  THEN [raised |-> "ValueError", df |-> kept]
                  ELSE [raised |-> "", df |-> Canonical(kept)]

----------------------------------------------------------------------------
(* balance_reviews                                                         *)

BankColumn(df) == [i \in 1..Len(df) |-> df[i].bank]

\* df[df['bank'] == bank]: NaN == NaN is False
BankReviews(df, bank) ==
    Mask(df, {i \in 1..Len(df) : ~isna(df[i].bank) /\ ~isna(bank) /\ df[i].bank = bank})

\* DataFrame.sample(n): n rows without replacement, in the order drawn
Samples(rows, n) ==
    {[k \in 1..n |-> rows[f[k]]] :
        f \in {g \in [1..n -> 1..Len(rows)] :
                 \A a, b \in 1..n : a /= b => g[a] /= g[b]}}

\* faulty variant: '>=' for '>' and one row too few
balance_bank_short(rows, target) ==
    IF Len(rows) >= target THEN Samples(rows, target - 1) ELSE {rows}

\* one iteration of the loop: the values bank_reviews can have when appended
balance_bank(rows, target) ==
    IF Len(rows) > target THEN Samples(rows, target) ELSE {rows}

----------------------------------------------------------------------------
(* Text: a sequence of Unicode code points                                 *)

EthiopicFirst == 4608      \* U+1200
EthiopicLast == 4991       \* U+137F

\* space, 'a', U+11FF, U+1200, U+137F, U+1380
CodePoints == {32, 97, 4607, 4608, 4991, 4992}

NaNText == [na |-> TRUE, en |-> FALSE, v |-> <<>>]
Text(cps) == [na |-> FALSE, en |-> FALSE, v |-> cps]

IsSpace(cp) == cp = 32

\* str.strip()
RECURSIVE lstrip(_)
lstrip(cps) ==
    IF cps /= <<>> /\ IsSpace(Head(cps)) THEN lstrip(Tail(cps)) ELSE cps

RECURSIVE rstrip(_)
rstrip(cps) ==
    IF cps /= <<>> /\ IsSpace(cps[Len(cps)])
    THEN rstrip(SubSeq(cps, 1, Len(cps) - 1)) ELSE cps

strip(cps) == rstrip(lstrip(cps))

\* pd.isna(text) or not isinstance(text, str) or text.strip() == ''
IsBlank(text) == isna(text) \/ strip(text.v) = <<>>

\* faulty variant: the class stops one code point short of U+137F
search_ethiopic_short(cps) ==
    \E i \in 1..Len(cps) : EthiopicFirst <= cps[i] /\ cps[i] < EthiopicLast

\* bool(re.search(r'[\u1200-\u137F]', text))
search_ethiopic(cps) ==
    \E i \in 1..Len(cps) : EthiopicFirst <= cps[i] /\ cps[i] <= EthiopicLast

----------------------------------------------------------------------------
(* detect_language                                                         *)

\* langdetect ships no Amharic profile: detect() returns one of its own codes
\* or raises LangDetectException (a text without letters has no features);
\* a value that is no string makes it raise TypeError
DetectorLangs == {"en", "so"}

DetectorOutcomes(text) ==
    IF isna(text) THEN {"TypeError"}
    ELSE IF strip(text.v) = <<>> THEN {"LangDetectException"}
    ELSE DetectorLangs \cup {"LangDetectException"}

\* detector: what detect(text) does if the call is reached.
\* [raised |-> the exception that leaves the function or "", lang |-> the result]
detect_language(text, detector) ==
    IF IsBlank(text) THEN [raised |-> "", lang |-> "unknown"]
    ELSE IF search_ethiopic(text.v) THEN [raised |-> "", lang |-> "am"]
    ELSE IF detector \in DetectorLangs THEN [raised |-> "", lang |-> detector]
    ELSE IF detector = "LangDetectException"
         THEN [raised |-> "",
               lang |-> IF search_ethiopic(text.v) THEN "am" ELSE "unknown"]
         ELSE [raised |-> detector, lang |-> ""]

----------------------------------------------------------------------------
(* translate_amharic, translate_reviews                                    *)

MaxAttempts == 3

\* GoogleTranslator(source='am', target='en').translate(text), when it returns
\* a non-empty string: the English rendering of text
Translated(text) == [na |-> FALSE, en |-> TRUE, v |-> text.v]

\* what one translator.translate call can do: raise, return a non-empty
\* string, return an empty one (or None)
TranslateOutcomes == {"raise", "text", "empty"}

\* faulty variant: the empty string once the attempts are used up
exhausted_return_empty(text) == Text(<<>>)

\* lines 99-100: the value returned once the for loop has run out
exhausted_return(text) == text

\* faulty variant: the empty string for a review that is not 'am'
passthrough_return_empty(text) == Text(<<>>)

\* line 101: the value returned for a review that is not 'am'
passthrough_return(text) == text

\* faulty variant: the list grows at the front
append_front(translated_reviews, value) == <<value>> \o translated_reviews

\* line 109: translated_reviews.append(...)
append(translated_reviews, value) == Append(translated_reviews, value)

----------------------------------------------------------------------------
(* clean_text                                                              *)

\* the code points of the texts handed to clean_text: ' ', '.', 'T', 'e',
\* 'h', e with acute accent (U+00E9), grinning face (U+1F600)
CleanCodePoints == {32, 46, 84, 101, 104, 233, 128512}

\* line 120: emoji.replace_emoji(text, replace='') deletes the code points
\* the emoji package lists
EmojiData == {128512}

replace_emoji(cps) == Mask(cps, {i \in 1..Len(cps) : cps[i] \notin EmojiData})

\* line 122: the ranges of the character class, U+1F600-U+1F64F and so on
EmojiRanges ==
    {<<128512, 128591>>, <<127744, 128511>>, <<128640, 128767>>,
     <<128768, 128895>>, <<128896, 129023>>, <<129024, 129279>>,
     <<129280, 129535>>, <<129536, 129647>>, <<129648, 129791>>,
     <<9984, 10175>>}

sub_emoji_ranges(cps) ==
    Mask(cps, {i \in 1..Len(cps) :
                 ~\E r \in EmojiRanges : r[1] <= cps[i] /\ cps[i] <= r[2]})

\* line 124, unicodedata.normalize('NFKD', text): U+00E9 decomposes to 'e'
\* and the combining acute accent U+0301, the other code points to themselves
Decomposition(cp) == IF cp = 233 THEN <<101, 769>> ELSE <<cp>>

normalize_nfkd(cps) == Concat([i \in 1..Len(cps) |-> Decomposition(cps[i])])

\* line 124, .encode('ascii', 'ignore').decode('ascii')
encode_ascii_ignore(cps) == Mask(cps, {i \in 1..Len(cps) : cps[i] < 128})

\* line 126, text.lower(), of an ASCII string
lower_cp(cp) == IF cp >= 65 /\ cp <= 90 THEN cp + 32 ELSE cp

lower_cps(cps) == [i \in 1..Len(cps) |-> lower_cp(cps[i])]

\* \w and \s of an ASCII string
IsWordChar(cp) == cp \in (48..57) \cup (65..90) \cup {95} \cup (97..122)

IsWhitespace(cp) == cp \in (9..13) \cup (28..32)

\* line 126: re.sub(r'[^\w\s]', '', text)
sub_punctuation(cps) ==
    Mask(cps, {i \in 1..Len(cps) : IsWordChar(cps[i]) \/ IsWhitespace(cps[i])})

\* line 129, text.split(): the maximal runs without whitespace
RECURSIVE split_from(_, _, _)
split_from(cps, i, word) ==
    LET done == IF word = <<>> THEN <<>> ELSE <<word>>
    IN  IF i > Len(cps) THEN done
        ELSE IF IsWhitespace(cps[i]) THEN done \o split_from(cps, i + 1, <<>>)
        ELSE split_from(cps, i + 1, Append(word, cps[i]))

split(cps) == split_from(cps, 1, <<>>)

\* line 128: the words of stopwords.words('english') that the code points
\* of the model spell: 't', 'he', 'the'
CleanStopWords == {<<116>>, <<104, 101>>, <<116, 104, 101>>}

\* line 130: word for word in tokens if word not in stop_words
remove_stopwords(tokens) ==
    Mask(tokens, {i \in 1..Len(tokens) : tokens[i] \notin CleanStopWords})

\* line 130: ' '.join(...)
RECURSIVE join_space(_)
join_space(words) ==
    IF words = <<>> THEN <<>>
    ELSE IF Len(words) = 1 THEN words[1]
    ELSE words[1] \o <<32>> \o join_space(Tail(words))

\* faulty variant: the stopwords go before the punctuation does
clean_text_stop_first(text) ==
    IF isna(text) THEN Text(<<>>)
    ELSE LET ascii == encode_ascii_ignore(normalize_nfkd(
                         sub_emoji_ranges(replace_emoji(text.v))))
         IN  Text(sub_punctuation(join_space(remove_stopwords(split(lower_cps(ascii))))))

\* lines 115-131
clean_text(text) ==
    IF isna(text) THEN Text(<<>>)
    ELSE LET ascii == encode_ascii_ignore(normalize_nfkd(
                         sub_emoji_ranges(replace_emoji(text.v))))
         IN  Text(join_space(remove_stopwords(split(sub_punctuation(lower_cps(ascii))))))

----------------------------------------------------------------------------
(* thematic_analysis.py: words are sequences of characters, a review is a  *)
(* sequence of words separated by single spaces                            *)

W_login == <<"l", "o", "g", "i", "n">>
W_Login == <<"L", "o", "g", "i", "n">>
W_slow  == <<"s", "l", "o", "w">>
W_quick == <<"q", "u", "i", "c", "k">>
W_the   == <<"t", "h", "e">>

Letters ==
    {"a", "b", "c", "d", "e", "f", "g", "h", "i", "j", "k", "l", "m", "n", "o",
     "p", "q", "r", "s", "t", "u", "v", "w", "x", "y", "z", "L"}

\* str.lower() of one character
lower_char(c) == IF c = "L" THEN "l" ELSE c

lower_word(word) == [i \in 1..Len(word) |-> lower_char(word[i])]

\* str.lower() of a text
lower(words) == [i \in 1..Len(words) |-> lower_word(words[i])]

isalpha(word) == word /= <<>> /\ \A i \in 1..Len(word) : word[i] \in Letters

\* the words of the model that stopwords.words('english') (NLTK) holds
NltkStopWords == {W_the}

\* the words of the model that scikit-learn's 'english' stop list holds
SklearnStopWords == {W_the}

\* select the elements of a sequence of words that are in S
RECURSIVE KeepWords(_, _)
KeepWords(words, S) ==
    IF words = <<>> THEN <<>>
    ELSE (IF Head(words) \in S THEN <<Head(words)>> ELSE <<>>)
            \o KeepWords(Tail(words), S)

\* preprocess_text: word_tokenize(text.lower()), alphabetic non-stopwords,
\* joined by spaces
preprocess_text(review) ==
    LET tokens == lower(review)
    IN  KeepWords(tokens, {t \in Range(tokens) : isalpha(t) /\ t \notin NltkStopWords})

\* TfidfVectorizer's analyzer: lowercase, tokens of two or more word
\* characters, the stop list removed
analyze(doc) ==
    LET tokens == lower(doc)
    IN  KeepWords(tokens, {t \in Range(tokens) : Len(t) >= 2 /\ t \notin SklearnStopWords})

\* the n-grams of ngram_range=(1, 2) of one document; an n-gram is the
\* sequence of its words (joined by one space in the source)
NGrams(doc) ==
    LET t == analyze(doc)
    IN  {<<t[i]>> : i \in 1..Len(t)} \cup {<<t[i], t[i + 1]>> : i \in 1..(Len(t) - 1)}

\* vectorizer.fit_transform(bank_reviews): the vocabulary
Vocabulary(docs) == UNION {NGrams(docs[i]) : i \in 1..Len(docs)}

TopKeywords == 20

\* the lists sorted(keywords, key=score, reverse=True)[:20] can be: the scores
\* are real-valued TF-IDF means, so any ranking of the vocabulary, cut to 20
RankedKeywords(docs) ==
    LET V == Vocabulary(docs)
        n == Min(Cardinality(V), TopKeywords)
    IN  {f \in [1..n -> V] : \A a, b \in 1..n : a /= b => f[a] /= f[b]}

\* faulty variant: the guard admits a single review
insufficient_reviews_one(bank_reviews) == Len(bank_reviews) < 1

\* line 39
insufficient_reviews(bank_reviews) == Len(bank_reviews) < 2

\* what one pass of extract_keywords' loop can do for a bank's processed
\* texts: [raised, keywords]; fit_transform raises ValueError ("empty
\* vocabulary") when no document holds a term
extract_bank(bank_reviews) ==
    IF insufficient_reviews(bank_reviews)
    THEN {[raised |-> "", keywords |-> <<>>]}
    ELSE IF Vocabulary(bank_reviews) = {}
    THEN {[raised |-> "ValueError", keywords |-> <<>>]}
    ELSE {[raised |-> "", keywords |-> kws] : kws \in RankedKeywords(bank_reviews)}

----------------------------------------------------------------------------
(* cluster_keywords                                                        *)

AccountAccessTerms ==
    {<<"l", "o", "g", "i", "n">>,
     <<"a", "c", "c", "e", "s", "s">>,
     <<"p", "a", "s", "s", "w", "o", "r", "d">>,
     <<"a", "u", "t", "h", "e", "n", "t", "i", "c", "a", "t", "i", "o", "n">>,
     <<"a", "c", "c", "o", "u", "n", "t">>,
     <<"e", "r", "r", "o", "r">>}

TransactionTerms ==
    {<<"t", "r", "a", "n", "s", "f", "e", "r">>,
     <<"p", "a", "y", "m", "e", "n", "t">>,
     <<"t", "r", "a", "n", "s", "a", "c", "t", "i", "o", "n">>,
     <<"s", "l", "o", "w">>,
     <<"d", "e", "l", "a", "y">>,
     <<"f", "a", "i", "l", "e", "d">>}

InterfaceTerms ==
    {<<"i", "n", "t", "e", "r", "f", "a", "c", "e">>,
     <<"u", "i">>,
     <<"d", "e", "s", "i", "g", "n">>,
     <<"e", "a", "s", "y">>,
     <<"n", "a", "v", "i", "g", "a", "t", "i", "o", "n">>,
     <<"a", "p", "p">>}

SupportTerms ==
    {<<"s", "u", "p", "p", "o", "r", "t">>,
     <<"s", "e", "r", "v", "i", "c", "e">>,
     <<"h", "e", "l", "p">>,
     <<"r", "e", "s", "p", "o", "n", "s", "e">>,
     <<"c", "u", "s", "t", "o", "m", "e", "r">>}

\* the themes dict of lines 64-69, in insertion order, with the trigger terms
\* of the branch that fills each
Themes ==
    <<[theme |-> "Account Access Issues", terms |-> AccountAccessTerms],
      [theme |-> "Transaction Performance", terms |-> TransactionTerms],
      [theme |-> "User Interface & Experience", terms |-> InterfaceTerms],
      [theme |-> "Customer Support", terms |-> SupportTerms]>>

\* the string of a keyword: its words joined by one space
RECURSIVE JoinWords(_)
JoinWords(words) ==
    IF words = <<>> THEN <<>>
    ELSE IF Len(words) = 1 THEN Head(words)
    ELSE Head(words) \o <<" ">> \o JoinWords(Tail(words))

\* term in string
Contains(string, term) ==
    \E i \in 1..(Len(string) - Len(term) + 1) :
        SubSeq(string, i, i + Len(term) - 1) = term

\* any(term in kw_lower for term in [...])
AnyTermIn(terms, kw) ==
    LET kw_lower == JoinWords(lower(kw))
    IN  \E term \in terms : Contains(kw_lower, term)

\* faulty variant: 'if' for every 'elif', a keyword joins every theme it matches
appended_to_every(kw) == {t \in 1..Len(Themes) : AnyTermIn(Themes[t].terms, kw)}

\* lines 74-84: the themes (by position) a keyword is appended to
appended_to(kw) ==
    {t \in 1..Len(Themes) :
        /\ AnyTermIn(Themes[t].terms, kw)
        /\ \A u \in 1..(t - 1) : ~AnyTermIn(Themes[u].terms, kw)}

\* lines 64-86 for one bank: the non-empty themes, in insertion order
cluster_bank(keywords) ==
    LET all == [t \in 1..Len(Themes) |->
                  [theme |-> Themes[t].theme,
                   keywords |-> Mask(keywords, {i \in 1..Len(keywords) :
                                                  t \in appended_to(keywords[i])})]]
    IN  Mask(all, {t \in 1..Len(all) : all[t].keywords /= <<>>})

cluster_keywords(keyword_dict) ==
    [i \in 1..Len(keyword_dict) |->
        [bank |-> keyword_dict[i].bank, themes |-> cluster_bank(keyword_dict[i].keywords)]]

----------------------------------------------------------------------------
(* assign_themes_to_reviews                                                *)

\* faulty variant: the flag re.IGNORECASE left out
re_search_case(keywords, review) ==
    \E k \in 1..Len(keywords) :
        \E p \in 1..(Len(review) - Len(keywords[k]) + 1) :
            SubSeq(review, p, p + Len(keywords[k]) - 1) = keywords[k]

\* re.search('|'.join(r'\b kw \b'), review, re.IGNORECASE): some keyword
\* stands in the review as whole words
re_search(keywords, review) ==
    \E k \in 1..Len(keywords) :
        \E p \in 1..(Len(review) - Len(keywords[k]) + 1) :
            lower(SubSeq(review, p, p + Len(keywords[k]) - 1)) = lower(keywords[k])

\* the themes string is a sequence of theme names and ";" separators
RECURSIVE rstrip_semicolons(_)
rstrip_semicolons(themes) ==
    IF themes /= <<>> /\ themes[Len(themes)] = ";"
    THEN rstrip_semicolons(SubSeq(themes, 1, Len(themes) - 1)) ELSE themes

\* faulty variant: the empty string is left as it is
finish_themes_keep_empty(themes) == rstrip_semicolons(themes)

\* line 113: .str.rstrip(';').replace('', 'No Theme')
finish_themes(themes) ==
    LET stripped == rstrip_semicolons(themes)
    IN  IF stripped = <<>> THEN <<"No Theme">> ELSE stripped

\* the themes dict of a bank, <<>> when theme_dict has no such key
ThemesOf(theme_dict, bank) ==
    LET hit == {i \in 1..Len(theme_dict) : theme_dict[i].bank = bank}
    IN  IF hit = {} THEN <<>> ELSE theme_dict[CHOOSE i \in hit : TRUE].themes

\* lines 95-111 for one row: theme + ";" for every theme of the row's bank
\* whose pattern is found in the review
tag_row(row, theme_dict) ==
    LET themes == ThemesOf(theme_dict, row.bank)
    IN  Concat([t \in 1..Len(themes) |->
                  IF themes[t].keywords /= <<>> /\ re_search(themes[t].keywords, row.review)
                  THEN <<themes[t].theme, ";">> ELSE <<>>])

assign_themes_to_reviews(df, theme_dict) ==
    [i \in 1..Len(df) |->
        [df[i] EXCEPT !.themes = finish_themes(tag_row(df[i], theme_dict))]]

----------------------------------------------------------------------------
(* preprocess main(): the stages in order                                  *)

\* a program that a specification does not run stays as it is here
PreIdle ==
    /\ pre_pc = "idle" /\ pre_raised = "" /\ pre_raw = <<>> /\ pre_in = <<>>
    /\ pre_df = <<>> /\ pre_target = 0 /\ pre_strict = FALSE
    /\ pre_todo = <<>> /\ pre_balanced = <<>>

DlIdle ==
    /\ dl_pc = "idle" /\ dl_text = NaNText /\ dl_detector = "" /\ dl_lang = ""
    /\ dl_raised = ""

TrIdle ==
    /\ tr_pc = "idle" /\ tr_df = <<>> /\ tr_i = 0 /\ tr_lang = ""
    /\ tr_calls = <<>> /\ tr_translated = <<>> /\ tr_review = <<>>

ThIdle ==
    /\ th_pc = "idle" /\ th_raised = "" /\ th_df = <<>> /\ th_todo = <<>>
    /\ th_keyword_dict = <<>> /\ th_theme_dict = <<>>

ClIdle ==
    /\ cl_pc = "idle" /\ cl_text = NaNText /\ cl_once = NaNText /\ cl_twice = NaNText

InitPreprocess ==
    /\ pre_pc = "load_data"
    /\ pre_raised = ""
    /\ pre_raw \in {read_csv(rows) : rows \in SeqsUpTo(RawRows, MaxRows)}
    /\ pre_in = <<>>
    /\ pre_df = pre_raw
    /\ pre_target \in 1..MaxTarget
    /\ pre_strict \in BOOLEAN
    /\ pre_todo = <<>>
    /\ pre_balanced = <<>>
    /\ DlIdle /\ TrIdle /\ ThIdle /\ ClIdle

RemoveDuplicates ==
    /\ pre_pc = "load_data"
    /\ pre_in' = pre_df
    /\ pre_df' = remove_duplicates(pre_df)
    /\ pre_pc' = "remove_duplicates"
    /\ UNCHANGED <<pre_raised, pre_raw, pre_target, pre_strict, pre_todo, pre_balanced>>
    /\ UNCHANGED notPre

HandleMissingData ==
    /\ pre_pc = "remove_duplicates"
    /\ pre_in' = pre_df
    /\ pre_df' = handle_missing_data(pre_df)
    /\ pre_pc' = "handle_missing_data"
    /\ UNCHANGED <<pre_raised, pre_raw, pre_target, pre_strict, pre_todo, pre_balanced>>
    /\ UNCHANGED notPre

NormalizeDates ==
    /\ pre_pc = "handle_missing_data"
    /\ pre_in' = pre_df
    /\ LET r == normalize_dates(pre_df, pre_strict)
       IN  /\ pre_df' = r.df
           /\ pre_raised' = r.raised
    /\ pre_pc' = "normalize_dates"
    /\ UNCHANGED <<pre_raw, pre_target, pre_strict, pre_todo, pre_balanced>>
    /\ UNCHANGED notPre

\* balance_reviews, lines 60-61
BalanceEnter ==
    /\ pre_pc = "normalize_dates"
    /\ pre_raised = ""
    /\ pre_in' = pre_df
    /\ pre_todo' = unique(BankColumn(pre_df))
    /\ pre_balanced' = <<>>
    /\ pre_pc' = "balancing"
    /\ UNCHANGED <<pre_raised, pre_raw, pre_df, pre_target, pre_strict>>
    /\ UNCHANGED notPre

\* balance_reviews, lines 61-68: one iteration
BalanceBank ==
    /\ pre_pc = "balancing"
    /\ pre_todo /= <<>>
    /\ \E bank_reviews \in balance_bank(BankReviews(pre_df, Head(pre_todo)), pre_target) :
          pre_balanced' = Append(pre_balanced, bank_reviews)
    /\ pre_todo' = Tail(pre_todo)
    /\ UNCHANGED <<pre_pc, pre_raised, pre_raw, pre_in, pre_df, pre_target, pre_strict>>
    /\ UNCHANGED notPre

\* balance_reviews, line 69: pd.concat raises ValueError on an empty list
BalanceConcat ==
    /\ pre_pc = "balancing"
    /\ pre_todo = <<>>
    /\ pre_df' = Concat(pre_balanced)
    /\ pre_raised' = IF pre_balanced = <<>> THEN "ValueError" ELSE ""
    /\ pre_pc' = "balance_reviews"
    /\ UNCHANGED <<pre_raw, pre_in, pre_target, pre_strict, pre_todo, pre_balanced>>
    /\ UNCHANGED notPre

NextPreprocess ==
    \/ RemoveDuplicates
    \/ HandleMissingData
    \/ NormalizeDates
    \/ BalanceEnter
    \/ BalanceBank
    \/ BalanceConcat

SpecPreprocess == InitPreprocess /\ [][NextPreprocess]_vars

----------------------------------------------------------------------------
(* detect_language called on its own                                       *)

DetectTexts == {NaNText} \cup {Text(cps) : cps \in SeqsUpTo(CodePoints, MaxTextLen)}

InitDetect ==
    /\ dl_pc = "call"
    /\ dl_text \in DetectTexts
    /\ dl_detector = ""
    /\ dl_lang = ""
    /\ dl_raised = ""
    /\ PreIdle /\ TrIdle /\ ThIdle /\ ClIdle

DetectLanguage ==
    /\ dl_pc = "call"
    /\ \E detector \in DetectorOutcomes(dl_text) :
          /\ dl_detector' = detector
          /\ dl_lang' = detect_language(dl_text, detector).lang
          /\ dl_raised' = detect_language(dl_text, detector).raised
    /\ dl_pc' = "returned"
    /\ UNCHANGED dl_text
    /\ UNCHANGED notDl

NextDetect == DetectLanguage

SpecDetect == InitDetect /\ [][NextDetect]_vars

----------------------------------------------------------------------------
(* translate_reviews: the loop over df['review'], translate_amharic inlined *)

ReviewTexts ==
    {NaNText, Text(<<>>), Text(<<32>>), Text(<<97>>), Text(<<4608>>),
     Text(<<97, 4991>>), Text(<<4992>>)}

InitTranslate ==
    /\ tr_pc = "for"
    /\ tr_df \in SeqsUpTo(ReviewTexts, MaxReviews)
    /\ tr_i = 0
    /\ tr_lang = ""
    /\ tr_calls = <<>>
    /\ tr_translated = <<>>
    /\ tr_review = tr_df
    /\ PreIdle /\ DlIdle /\ ThIdle /\ ClIdle

\* lines 107-109, 84-88 and 101: the next review enters translate_amharic,
\* which returns at once unless the review is detected as 'am'
TranslateAmharicEnter ==
    /\ tr_pc = "for"
    /\ tr_i < Len(tr_df)
    /\ tr_calls' = <<>>
    /\ LET text == tr_df[tr_i + 1]
       IN  IF IsBlank(text)
           THEN /\ tr_lang' = ""
                /\ tr_translated' = append(tr_translated, Text(<<>>))
                /\ tr_pc' = "sleep"
           ELSE \E detector \in DetectorOutcomes(text) :
                   LET r == detect_language(text, detector)
                   IN  /\ tr_lang' = r.lang
                       /\ CASE r.raised /= "" ->
                               /\ tr_pc' = "raised"
                               /\ UNCHANGED tr_translated
                            [] r.raised = "" /\ r.lang = "am" ->
                               /\ tr_pc' = "attempt"
                               /\ UNCHANGED tr_translated
                            [] OTHER ->
                               /\ tr_pc' = "sleep"
                               /\ tr_translated' =
                                     append(tr_translated, passthrough_return(text))
    /\ UNCHANGED <<tr_df, tr_i, tr_review>>
    /\ UNCHANGED notTr

\* lines 89-98: one pass of 'for attempt in range(3)'
TranslateAttempt ==
    /\ tr_pc = "attempt"
    /\ Len(tr_calls) < MaxAttempts
    /\ \E outcome \in TranslateOutcomes :
          /\ tr_calls' = Append(tr_calls, outcome)
          /\ LET text == tr_df[tr_i + 1]
             IN  CASE outcome = "text" ->
                        /\ tr_translated' = append(tr_translated, Translated(text))
                        /\ tr_pc' = "sleep"
                   [] outcome = "empty" ->
                        /\ tr_translated' = append(tr_translated, text)
                        /\ tr_pc' = "sleep"
                   [] outcome = "raise" ->
                        \* except Exception: print, time.sleep(1)
                        /\ UNCHANGED <<tr_translated, tr_pc>>
    /\ UNCHANGED <<tr_df, tr_i, tr_lang, tr_review>>
    /\ UNCHANGED notTr

\* lines 99-100: range(3) is used up
TranslateExhausted ==
    /\ tr_pc = "attempt"
    /\ Len(tr_calls) >= MaxAttempts
    /\ tr_translated' = append(tr_translated, exhausted_return(tr_df[tr_i + 1]))
    /\ tr_pc' = "sleep"
    /\ UNCHANGED <<tr_df, tr_i, tr_lang, tr_calls, tr_review>>
    /\ UNCHANGED notTr

\* line 110: time.sleep(0.5), then the next review
TranslateSleep ==
    /\ tr_pc = "sleep"
    /\ tr_i' = tr_i + 1
    /\ tr_pc' = "for"
    /\ UNCHANGED <<tr_df, tr_lang, tr_calls, tr_translated, tr_review>>
    /\ UNCHANGED notTr

\* lines 111-113: df['review'] = translated_reviews (by position)
TranslateReturn ==
    /\ tr_pc = "for"
    /\ tr_i = Len(tr_df)
    /\ tr_review' = tr_translated
    /\ tr_pc' = "done"
    /\ UNCHANGED <<tr_df, tr_i, tr_lang, tr_calls, tr_translated>>
    /\ UNCHANGED notTr

NextTranslate ==
    \/ TranslateAmharicEnter
    \/ TranslateAttempt
    \/ TranslateExhausted
    \/ TranslateSleep
    \/ TranslateReturn

SpecTranslate == InitTranslate /\ [][NextTranslate]_vars

\* the script runs to completion: a step that can be taken is taken
FairSpecTranslate == SpecTranslate /\ WF_vars(NextTranslate)

----------------------------------------------------------------------------
(* thematic main(): the steps in order                                     *)

\* the review texts of the sentiment CSV: '', 'Login', 'login slow',
\* 'the quick'
ThReviews == {<<>>, <<W_Login>>, <<W_login, W_slow>>, <<W_the, W_quick>>}

ThBanks == {"A", "B"}

InitThematic ==
    /\ th_pc = "load_data"
    /\ th_raised = ""
    /\ th_df \in SeqsUpTo([review : ThReviews, bank : ThBanks,
                           processed_text : {<<>>}, themes : {<<>>}], MaxThReviews)
    /\ th_todo = <<>>
    /\ th_keyword_dict = <<>>
    /\ th_theme_dict = <<>>
    /\ PreIdle /\ DlIdle /\ TrIdle /\ ClIdle

ThBankColumn(df) == [i \in 1..Len(df) |-> df[i].bank]

\* df[df['bank'] == bank]['processed_text']
ProcessedTexts(df, bank) ==
    LET rows == Mask(df, {i \in 1..Len(df) : df[i].bank = bank})
    IN  [i \in 1..Len(rows) |-> rows[i].processed_text]

\* main, lines 147-154, and extract_keywords, lines 36-37
PreprocessText ==
    /\ th_pc = "load_data"
    /\ th_df' = [i \in 1..Len(th_df) |->
                   [th_df[i] EXCEPT !.processed_text = preprocess_text(th_df[i].review)]]
    /\ th_todo' = unique(ThBankColumn(th_df))
    /\ th_keyword_dict' = <<>>
    /\ th_pc' = "extract_keywords"
    /\ UNCHANGED <<th_raised, th_theme_dict>>
    /\ UNCHANGED notTh

\* extract_keywords, lines 37-57: one pass of the loop; an exception leaves
\* extract_keywords and main
ExtractKeywordsBank ==
    /\ th_pc = "extract_keywords"
    /\ th_raised = ""
    /\ th_todo /= <<>>
    /\ \E r \in extract_bank(ProcessedTexts(th_df, Head(th_todo))) :
          /\ th_raised' = r.raised
          /\ th_keyword_dict' =
                IF r.raised = ""
                THEN Append(th_keyword_dict, [bank |-> Head(th_todo), keywords |-> r.keywords])
                ELSE th_keyword_dict
    /\ th_todo' = Tail(th_todo)
    /\ UNCHANGED <<th_pc, th_df, th_theme_dict>>
    /\ UNCHANGED notTh

\* main, line 160
ClusterKeywords ==
    /\ th_pc = "extract_keywords"
    /\ th_raised = ""
    /\ th_todo = <<>>
    /\ th_theme_dict' = cluster_keywords(th_keyword_dict)
    /\ th_pc' = "cluster_keywords"
    /\ UNCHANGED <<th_raised, th_df, th_todo, th_keyword_dict>>
    /\ UNCHANGED notTh

\* main, line 163
AssignThemesToReviews ==
    /\ th_pc = "cluster_keywords"
    /\ th_df' = assign_themes_to_reviews(th_df, th_theme_dict)
    /\ th_pc' = "assign_themes_to_reviews"
    /\ UNCHANGED <<th_raised, th_todo, th_keyword_dict, th_theme_dict>>
    /\ UNCHANGED notTh

NextThematic ==
    \/ PreprocessText
    \/ ExtractKeywordsBank
    \/ ClusterKeywords
    \/ AssignThemesToReviews

SpecThematic == InitThematic /\ [][NextThematic]_vars

----------------------------------------------------------------------------
(* clean_text called on its own, and again on what it returned             *)

CleanTexts == {NaNText} \cup {Text(cps) : cps \in SeqsUpTo(CleanCodePoints, MaxCleanLen)}

InitClean ==
    /\ cl_pc = "call"
    /\ cl_text \in CleanTexts
    /\ cl_once = NaNText
    /\ cl_twice = NaNText
    /\ PreIdle /\ DlIdle /\ TrIdle /\ ThIdle

\* process_reviews, line 141: df['review'].apply(clean_text), one review
CleanText ==
    /\ cl_pc = "call"
    /\ cl_once' = clean_text(cl_text)
    /\ cl_pc' = "cleaned"
    /\ UNCHANGED <<cl_text, cl_twice>>
    /\ UNCHANGED notCl

\* clean_text applied to a text that clean_text returned
CleanAgain ==
    /\ cl_pc = "cleaned"
    /\ cl_twice' = clean_text(cl_once)
    /\ cl_pc' = "cleaned_again"
    /\ UNCHANGED <<cl_text, cl_once>>
    /\ UNCHANGED notCl

NextClean ==
    \/ CleanText
    \/ CleanAgain

SpecClean == InitClean /\ [][NextClean]_vars

----------------------------------------------------------------------------
(* Properties of the preprocessing stages                                  *)

Idxs(df) == {df[i].idx : i \in 1..Len(df)}

\* C2: remove_duplicates returns no more rows than it received, no two output
\* rows share the (review, rating, date, bank, source) tuple, and the output is
\* exactly the first occurrence of each distinct tuple, in the original order.
C2_DedupKeepsFirstOccurrences ==
    pre_pc = "remove_duplicates" =>
        /\ Len(pre_df) <= Len(pre_in)
        /\ \A i, j \in 1..Len(pre_df) :
              i /= j => DedupSubset(pre_df[i]) /= DedupSubset(pre_df[j])
        /\ \A i \in 1..Len(pre_df) :
              \E k \in 1..Len(pre_in) :
                 /\ pre_in[k] = pre_df[i]
                 /\ \A j \in 1..(k - 1) : DedupSubset(pre_in[j]) /= DedupSubset(pre_in[k])
        /\ \A k \in 1..Len(pre_in) :
              \E i \in 1..Len(pre_df) : DedupSubset(pre_df[i]) = DedupSubset(pre_in[k])
        /\ \A i, j \in 1..Len(pre_df) : i < j => pre_df[i].idx < pre_df[j].idx

\* a duplicate row was dropped
C2_Witness ==
    /\ pre_pc = "remove_duplicates"
    /\ Len(pre_df) < Len(pre_in)
    /\ Len(pre_df) > 0

\* C3: for every group balance_reviews outputs exactly min(inputCount,
\* target_count) reviews of that group, each a distinct review of that group's
\* input; the count depends on the group's own reviews and target_count only.
C3_BalanceCountPerGroup ==
    (pre_pc = "balance_reviews" /\ pre_raised = "") =>
        \A bank \in Range(BankColumn(pre_in)) :
            LET inb  == BankReviews(pre_in, bank)
                outb == BankReviews(pre_df, bank)
            IN  /\ Len(outb) = Min(Len(inb), pre_target)
                /\ Range(outb) \subseteq Range(inb)
                /\ Cardinality(Idxs(outb)) = Len(outb)

\* a group above target_count was sampled down
C3_Witness ==
    /\ pre_pc = "balance_reviews"
    /\ pre_raised = ""
    /\ \E bank \in Range(BankColumn(pre_in)) :
          /\ Len(BankReviews(pre_in, bank)) > pre_target
          /\ Len(BankReviews(pre_df, bank)) = pre_target

IsCanonicalDate(c) == ~isna(c) /\ DateFormat(c.v) = "%Y-%m-%d"

\* C9: on a DataFrame whose rows all have a date, normalize_dates never raises,
\* removes exactly the rows whose date cannot be parsed, and leaves every
\* surviving date in the form YYYY-MM-DD.
C9_NormalizeDatesDropsUnparsable ==
    pre_pc = "normalize_dates" =>
        /\ pre_raised = ""
        /\ Idxs(pre_df) = {pre_in[i].idx : i \in {k \in 1..Len(pre_in) :
                                to_datetime_coerce(pre_in[k].date.v) /= NaT}}
        /\ \A i \in 1..Len(pre_df) : IsCanonicalDate(pre_df[i].date)

\* C14: in main, where remove_duplicates runs before handle_missing_data,
\* no two rows that survive handle_missing_data share the same
\* (review, rating, date, bank, source) tuple.
C14_NoDuplicatesAfterRepair ==
    pre_pc = "handle_missing_data" =>
        \A i, j \in 1..Len(pre_df) :
            i /= j => DedupSubset(pre_df[i]) /= DedupSubset(pre_df[j])

----------------------------------------------------------------------------
(* Properties of language detection and translation                        *)

\* C1: for a review classified 'am', translate_amharic makes at most 3
\* translation calls and stops at the first call that does not raise; when
\* every call raises, exactly 3 calls are made and the text kept for the
\* review is its original text.
C1_BoundedRetryThenOriginal ==
    tr_lang = "am" =>
        LET n == Len(tr_calls)
        IN  /\ n <= 3
            /\ \A k \in 1..(n - 1) : tr_calls[k] = "raise"
            /\ (n > 0 /\ tr_calls[n] /= "raise") => tr_pc /= "attempt"
            /\ tr_pc = "sleep" =>
                  /\ n > 0
                  /\ tr_calls[n] /= "raise" \/ n = 3
                  /\ (\A k \in 1..n : tr_calls[k] = "raise") =>
                        /\ n = 3
                        /\ tr_translated[tr_i + 1] = tr_df[tr_i + 1]

\* an 'am' review whose three calls all raised
C1_Witness ==
    /\ tr_pc = "sleep"
    /\ tr_lang = "am"
    /\ tr_calls = <<"raise", "raise", "raise">>
    /\ tr_translated[tr_i + 1] = tr_df[tr_i + 1]

\* C8: detect_language returns 'am' for any text with a code point in
\* U+1200..U+137F, whatever the detector would do; for any other text it
\* returns the detector's result, or 'unknown' when detection fails; no
\* exception leaves the function.
C8_EthiopicOverridesDetector ==
    dl_pc = "returned" =>
        /\ dl_raised = ""
        /\ (\E i \in 1..Len(dl_text.v) : dl_text.v[i] \in 4608..4991)
              => dl_lang = "am"
        /\ ~(\E i \in 1..Len(dl_text.v) : dl_text.v[i] \in 4608..4991)
              => dl_lang = (IF dl_detector \in DetectorLangs
                            THEN dl_detector ELSE "unknown")

\* a text with U+137F that the detector would have called English
C8_Witness ==
    /\ dl_pc = "returned"
    /\ dl_text = Text(<<97, 4991>>)
    /\ dl_detector = "en"
    /\ dl_lang = "am"

\* what translate_amharic can return for one review
TranslateAmharicResults(text) ==
    IF IsBlank(text) THEN {Text(<<>>)} ELSE {text, Translated(text)}

\* C10: translate_reviews terminates whatever the translation calls do, with
\* as many reviews as it received, the text at position i derived from the
\* review at position i.
C10_OrderedMap ==
    /\ <>(tr_pc = "done")
    /\ [](tr_pc = "done" =>
            /\ Len(tr_review) = Len(tr_df)
            /\ \A i \in 1..Len(tr_df) :
                  tr_review[i] \in TranslateAmharicResults(tr_df[i]))

\* two different reviews, the first translated, the second kept after the
\* attempts ran out
C10_Witness ==
    /\ tr_pc = "done"
    /\ Len(tr_df) = 2
    /\ tr_df[1] /= tr_df[2]
    /\ tr_review[1] = Translated(tr_df[1])
    /\ tr_review[2] = tr_df[2]
    /\ tr_calls = <<"raise", "raise", "raise">>

\* a missing or whitespace-only text
IsMissingOrSpaces(text) == text.na \/ \A i \in 1..Len(text.v) : text.v[i] = 32

\* C11 as stated: for a review that is not classified 'am' (whatever else
\* it is classified, 'unknown' included) no translation call is made and the
\* review's text is left exactly as it was.
C11_NotAmharicUnchanged ==
    (tr_pc = "sleep" /\ tr_lang /= "am") =>
        /\ tr_calls = <<>>
        /\ tr_translated[tr_i + 1] = tr_df[tr_i + 1]

\* C11 as amended: for a review that is not classified 'am' no translation
\* call is made; its text is left exactly as it was unless it is missing or
\* whitespace-only, and then it becomes the empty string.
C11_NotAmharicUnchangedOrEmptied ==
    (tr_pc = "sleep" /\ tr_lang /= "am") =>
        /\ tr_calls = <<>>
        /\ tr_translated[tr_i + 1] =
              (IF IsMissingOrSpaces(tr_df[tr_i + 1]) THEN Text(<<>>) ELSE tr_df[tr_i + 1])

\* the review 'a', classified 'en', passed through after an emptied ' '
C11_Witness ==
    /\ tr_pc = "sleep"
    /\ tr_i = 1
    /\ tr_df[1] = Text(<<32>>)
    /\ tr_translated[1] = Text(<<>>)
    /\ tr_df[2] = Text(<<97>>)
    /\ tr_lang = "en"
    /\ tr_calls = <<>>
    /\ tr_translated[2] = Text(<<97>>)

----------------------------------------------------------------------------
(* Properties of the thematic analysis                                     *)

Taxonomy ==
    <<"Account Access Issues", "Transaction Performance",
      "User Interface & Experience", "Customer Support">>

\* keyword_dict[bank], <<>> when the bank has no entry
KeywordsOf(keyword_dict, bank) ==
    LET hit == {i \in 1..Len(keyword_dict) : keyword_dict[i].bank = bank}
    IN  IF hit = {} THEN <<>> ELSE keyword_dict[CHOOSE i \in hit : TRUE].keywords

\* the positions of Taxonomy whose trigger set has a substring match in kw
Matching(kw) == {u \in 1..4 : Themes[u].theme = Taxonomy[u] /\ AnyTermIn(Themes[u].terms, kw)}

\* the theme names under which kw is listed in one bank's theme map
Holding(themes, kw) ==
    {themes[t].theme : t \in {u \in 1..Len(themes) : kw \in Range(themes[u].keywords)}}

\* C4: cluster_keywords puts each keyword of a group under at most one theme,
\* the first of Account Access, Transaction Performance, Interface/Experience,
\* Customer Support whose trigger set has a substring match in the keyword; a
\* keyword that matches no trigger set is under no theme.
C4_KeywordUnderFirstMatchingTheme ==
    th_pc = "cluster_keywords" =>
        /\ Len(th_theme_dict) = Len(th_keyword_dict)
        /\ \A i \in 1..Len(th_theme_dict) :
              /\ th_theme_dict[i].bank = th_keyword_dict[i].bank
              /\ \A kw \in Range(th_keyword_dict[i].keywords) :
                    LET held == Holding(th_theme_dict[i].themes, kw)
                        hits == Matching(kw)
                    IN  /\ Cardinality(held) <= 1
                        /\ hits = {} => held = {}
                        /\ hits /= {} =>
                              held = {Taxonomy[CHOOSE u \in hits : \A v \in hits : u <= v]}

\* a keyword that matches two trigger sets went to the first theme
C4_Witness ==
    /\ th_pc = "cluster_keywords"
    /\ \E i \in 1..Len(th_theme_dict) :
          \E kw \in Range(th_keyword_dict[i].keywords) :
              /\ Matching(kw) = {1, 2}
              /\ Holding(th_theme_dict[i].themes, kw) = {"Account Access Issues"}

\* a themes value that lists theme names: names of the taxonomy, none twice,
\* separated by ";"
IsThemeList(themes) ==
    /\ Len(themes) % 2 = 1
    /\ \A i \in 1..Len(themes) :
          IF i % 2 = 1 THEN themes[i] \in Range(Taxonomy) ELSE themes[i] = ";"
    /\ \A i, j \in 1..Len(themes) :
          (i % 2 = 1 /\ j % 2 = 1 /\ i /= j) => themes[i] /= themes[j]

\* C5: after assign_themes_to_reviews every review's themes value is
\* non-empty and is either exactly 'No Theme' or a list of distinct names of
\* the four-theme taxonomy; 'No Theme' never stands beside a real theme.
C5_ThemesSentinelOrTaxonomy ==
    th_pc = "assign_themes_to_reviews" =>
        \A i \in 1..Len(th_df) :
            /\ th_df[i].themes /= <<>>
            /\ th_df[i].themes = <<"No Theme">> \/ IsThemeList(th_df[i].themes)

\* one review carries two themes, another the sentinel
C5_Witness ==
    /\ th_pc = "assign_themes_to_reviews"
    /\ \E i, j \in 1..Len(th_df) :
          /\ th_df[i].themes =
                <<"Account Access Issues", ";", "Transaction Performance">>
          /\ th_df[j].themes = <<"No Theme">>

\* the review holds the term as a whole word (in any case)
HasWord(review, term) == \E p \in 1..Len(review) : lower_word(review[p]) = term

\* C6 as stated: a review whose text holds a term of the Account Access
\* trigger set as a whole word is tagged 'Account Access Issues'.
C6_TriggerWordTagsReview ==
    th_pc = "assign_themes_to_reviews" =>
        \A i \in 1..Len(th_df) :
            \A term \in AccountAccessTerms :
                HasWord(th_df[i].review, term)
                    => "Account Access Issues" \in Range(th_df[i].themes)

\* C6 as amended: a review whose text holds, as a whole word, a term of the
\* Account Access trigger set that is among the extracted keywords of the
\* review's group is tagged 'Account Access Issues'.
C6_ExtractedTriggerWordTagsReview ==
    th_pc = "assign_themes_to_reviews" =>
        \A i \in 1..Len(th_df) :
            \A term \in AccountAccessTerms :
                (/\ HasWord(th_df[i].review, term)
                 /\ <<term>> \in Range(KeywordsOf(th_keyword_dict, th_df[i].bank)))
                    => "Account Access Issues" \in Range(th_df[i].themes)

\* the review 'Login' of a group whose keywords hold 'login' is tagged
C6_Witness ==
    /\ th_pc = "assign_themes_to_reviews"
    /\ \E i \in 1..Len(th_df) :
          /\ th_df[i].review = <<W_Login>>
          /\ <<W_login>> \in Range(KeywordsOf(th_keyword_dict, th_df[i].bank))
          /\ th_df[i].themes = <<"Account Access Issues">>

\* C7: a failure of keyword extraction for one group (such as a group whose
\* texts are all empty) does not abort the run: the group gets an empty
\* keyword list and 'No Theme', every other group its keywords and themes.
C7_GroupFailureDoesNotAbort ==
    /\ th_raised = ""
    /\ th_pc = "assign_themes_to_reviews" =>
          \A bank \in Range(ThBankColumn(th_df)) :
              (\A k \in 1..Len(ProcessedTexts(th_df, bank)) :
                    ProcessedTexts(th_df, bank)[k] = <<>>)
                 => /\ KeywordsOf(th_keyword_dict, bank) = <<>>
                    /\ \A i \in 1..Len(th_df) :
                          th_df[i].bank = bank => th_df[i].themes = <<"No Theme">>

\* the rows of df that belong to bank
RowsOf(df, bank) == {i \in 1..Len(df) : df[i].bank = bank}

\* the entries of a bank-keyed list that belong to bank
EntriesOf(dict, bank) == {i \in 1..Len(dict) : dict[i].bank = bank}

\* C12: a group with fewer than 2 reviews is never ranked: extract_keywords
\* returns an empty keyword list for it, cluster_keywords gives it an empty
\* theme map, and assign_themes_to_reviews tags each of its reviews with
\* 'No Theme'.
C12_SmallGroupNoKeywordsNoTheme ==
    \A bank \in ThBanks :
        (RowsOf(th_df, bank) /= {} /\ Cardinality(RowsOf(th_df, bank)) < 2) =>
            /\ \A i \in EntriesOf(th_keyword_dict, bank) : th_keyword_dict[i].keywords = <<>>
            /\ (th_pc \in {"cluster_keywords", "assign_themes_to_reviews"} =>
                  /\ Cardinality(EntriesOf(th_keyword_dict, bank)) = 1
                  /\ Cardinality(EntriesOf(th_theme_dict, bank)) = 1
                  /\ \A i \in EntriesOf(th_theme_dict, bank) : th_theme_dict[i].themes = <<>>)
            /\ (th_pc = "assign_themes_to_reviews" =>
                  \A i \in RowsOf(th_df, bank) : th_df[i].themes = <<"No Theme">>)

\* the only review of its group is 'Login', in a table whose other group was
\* ranked, and it is tagged 'No Theme'
C12_Witness ==
    /\ th_pc = "assign_themes_to_reviews"
    /\ \E i \in 1..Len(th_df) :
          /\ RowsOf(th_df, th_df[i].bank) = {i}
          /\ th_df[i].review = <<W_Login>>
          /\ th_df[i].themes = <<"No Theme">>
          /\ KeywordsOf(th_keyword_dict, th_df[i].bank) = <<>>
    /\ \E j \in 1..Len(th_keyword_dict) : th_keyword_dict[j].keywords /= <<>>

----------------------------------------------------------------------------
(* Properties of clean_text                                                *)

\* C13: clean_text is idempotent on cleaned text: for every text that is
\* already the output of cleaning (lowercase, no punctuation, no emoji, no
\* stopwords), applying clean_text again returns the same text.
C13_CleanTextIdempotent ==
    cl_pc = "cleaned_again" => cl_twice = cl_once

\* 'T.e' with an accented e was cleaned to 'te', and 'te' is cleaned to 'te'
C13_Witness ==
    /\ cl_pc = "cleaned_again"
    /\ cl_text = Text(<<84, 46, 233>>)
    /\ cl_once = Text(<<116, 101>>)
    /\ cl_twice = Text(<<116, 101>>)

====
